---- MODULE Spec2Model ----
(***************************************************************************)
(* Buy-vs-rent calculator: the net-worth projection computed by the App    *)
(* component of src/src/App.jsx on every render.                           *)
(* Spec and ConfigSpec follow one render, RenderSpec successive renders,  *)
(* StoreSpec the input record as React state and as localStorage item.     *)
(* QueueSpec follows the updates that wait for one render, PaymentSpec    *)
(* the monthly payment of the default record in whole-number arithmetic.   *)
(*                                                                         *)
(* JavaScript numbers are modelled as exact rationals [n, d] in lowest     *)
(* terms (d > 0), extended with d = 0 for the IEEE special values:         *)
(* 1/0 = Infinity, -1/0 = -Infinity, 0/0 = NaN.  Rounding of doubles and   *)
(* the sign of zero are not modelled.                                      *)
(***************************************************************************)
EXTENDS Integers, Sequences, FiniteSets, TLC

VARIABLES
    values,                 \* the input record (React state `values`)
    pc,                     \* "loop": inside the year loop; "done": after line 132
    year,                   \* loop counter of the for statement
    years,                  \* the `years` array of line 72
    buyNetWorth,            \* the buy series (array of numbers)
    rentNetWorth,           \* the rent series
    currentRent,            \* loop-carried: monthly rent of the current year
    cumulativeSavings,      \* loop-carried: reinvested savings
    remainingLoanBalance,   \* loop-carried: outstanding principal
    homeValue,              \* loop locals of the latest iteration
    sellingCost,
    cumulativeOwnershipCosts,
    buyNet,
    investedInitial,
    yearlySavings,
    finalBuy,               \* results computed after the loop
    finalRent,
    difference,
    winner,
    renders,                \* how many renders of App have been started
    valuesState,            \* the state behind useState (line 35), as JavaScript values
    stored,                 \* the localStorage item 'buyVsRentInputs'
    effectPending,          \* the effect of lines 49-51 is scheduled
    showAdvanced,           \* the state of line 47
    updateQueue,            \* updates passed to setValues and not yet applied
    powCount,               \* the factors multiplied so far into the power below
    powNum,                 \* (1 + monthlyRate)^powCount as a fraction of two
    powDen,                 \*   whole numbers of any size
    payment                 \* the monthly payment computed from that power

vars == <<values, pc, year, years, buyNetWorth, rentNetWorth, currentRent,
          cumulativeSavings, remainingLoanBalance, homeValue, sellingCost,
          cumulativeOwnershipCosts, buyNet, investedInitial, yearlySavings,
          finalBuy, finalRent, difference, winner,
          renders, valuesState, stored, effectPending,
          showAdvanced, updateQueue, powCount, powNum, powDen, payment>>

uiVars == <<showAdvanced, updateQueue>>

paymentVars == <<powCount, powNum, powDen, payment>>

---------------------------------------------------------------------------
(* Bounds of the model *)

MaxHorizon == 3

\* the number of renders followed in a run
MaxRenders == 2

\* the number of updates that can wait for one render
MaxPending == 2

\* the number of fraction digits written when a number is converted to text
MaxDigits == 6

HomePrices == {0, 100}
DownPayments == {40, 150}
SmallLoanDownPayments == {97, 150}
MortgageRates == {0, 1200}
MortgageTerms == {1, 2}
HomeAppreciations == {-50, 100}
InitialRents == {5, 30}
RentIncreases == {0, 100}
InvestmentReturns == {-200, -100, -50, 0, 100}
ClosingCostsPercents == {0, 5}
SellingCostsPercents == {0, 10}
AnnualOwnershipPercents == {0, 12}

---------------------------------------------------------------------------
(* Numbers *)

Abs(i) == IF i < 0 THEN -i ELSE i

Sign(i) == IF i < 0 THEN -1 ELSE IF i > 0 THEN 1 ELSE 0

RECURSIVE GCD(_, _)
GCD(a, b) == IF b = 0 THEN a ELSE GCD(b, a % b)

\* the rational n/d (d # 0) in lowest terms with a positive denominator
RNorm(n, d) ==
    LET g == GCD(Abs(n), Abs(d))
    IN  [n |-> Sign(d) * (n \div g), d |-> Abs(d) \div g]

R(i) == [n |-> i, d |-> 1]

Zero == R(0)
One == R(1)
NaN == [n |-> 0, d |-> 0]
Infinity == [n |-> 1, d |-> 0]

IsFinite(a) == a.d # 0

RNeg(a) == [n |-> -a.n, d |-> a.d]

\* a + b
RAdd(a, b) ==
    IF a.d = 0 \/ b.d = 0
    THEN IF a = NaN \/ b = NaN THEN NaN
         ELSE IF a.d = 0 /\ b.d = 0 THEN (IF a.n = b.n THEN a ELSE NaN)
         ELSE IF a.d = 0 THEN a ELSE b
    ELSE LET g == GCD(a.d, b.d)
         IN  RNorm(a.n * (b.d \div g) + b.n * (a.d \div g), (a.d \div g) * b.d)

\* a - b
RSub(a, b) == RAdd(a, RNeg(b))

\* a * b
RMul(a, b) ==
    IF a.d = 0 \/ b.d = 0
    THEN IF a.n = 0 \/ b.n = 0 THEN NaN
         ELSE [n |-> Sign(a.n) * Sign(b.n), d |-> 0]
    ELSE LET g1 == GCD(Abs(a.n), b.d)
             g2 == GCD(Abs(b.n), a.d)
         IN  [n |-> (a.n \div g1) * (b.n \div g2),
              d |-> (a.d \div g2) * (b.d \div g1)]

\* a / b
RDiv(a, b) ==
    IF b.d = 0
    THEN IF b.n = 0 \/ a.d = 0 THEN NaN ELSE Zero
    ELSE IF b.n = 0
    THEN IF a.n = 0 THEN NaN ELSE [n |-> Sign(a.n), d |-> 0]
    ELSE RMul(a, [n |-> Sign(b.n) * b.d, d |-> Abs(b.n)])

\* a < b (false when either side is NaN)
RLt(a, b) ==
    IF a = NaN \/ b = NaN THEN FALSE
    ELSE IF a.d = 0 /\ b.d = 0 THEN a.n < b.n
    ELSE a.n * b.d < b.n * a.d

\* a >= b (false when either side is NaN)
RGeq(a, b) ==
    IF a = NaN \/ b = NaN THEN FALSE
    ELSE IF a.d = 0 /\ b.d = 0 THEN a.n >= b.n
    ELSE a.n * b.d >= b.n * a.d

\* Math.pow(b, e) for an integer e >= 0
RECURSIVE Pow(_, _)
Pow(b, e) ==
    IF e < 0 THEN RDiv(One, Pow(b, -e))
    ELSE IF e = 0 THEN One ELSE RMul(b, Pow(b, e - 1))

\* Math.max(0, a)
Max0(a) == IF a = NaN THEN NaN ELSE IF RLt(a, Zero) THEN Zero ELSE a

\* Math.round(a): the nearest integer, halves towards +Infinity
Round(a) == IF a.d = 0 THEN a ELSE R((2 * a.n + a.d) \div (2 * a.d))

\* 1 + rate/100
Growth(rate) == RAdd(One, RDiv(R(rate), R(100)))

\* the value of a missing array element or of a binding not yet evaluated
Undefined == [undef |-> TRUE]

\* a - b on values that may be undefined (undefined converts to NaN)
JSSub(a, b) == IF a = Undefined \/ b = Undefined THEN NaN ELSE RSub(a, b)

\* arr[i] for a zero-based index
At(arr, i) == IF i + 1 \in DOMAIN arr THEN arr[i + 1] ELSE Undefined

---------------------------------------------------------------------------
(* Values computed once per render, lines 59-70 *)

\* variant: the loan amount without the floor at zero
loanAmountUnclamped == R(values.homePrice - values.downPayment)

\* line 59
loanAmount == Max0(R(values.homePrice - values.downPayment))

monthlyRate == RDiv(RDiv(R(values.mortgageRate), R(100)), R(12))

numPayments == values.mortgageTerm * 12

\* variant: the amortization formula also for a rate of zero
monthlyMortgageFormulaOnly ==
    RDiv(RMul(RMul(loanAmount, monthlyRate),
              Pow(RAdd(One, monthlyRate), numPayments)),
         RSub(Pow(RAdd(One, monthlyRate), numPayments), One))

\* variant: a payment that covers the interest of the full loan only
monthlyMortgageInterestOnly ==
    IF RLt(Zero, monthlyRate) THEN RMul(loanAmount, monthlyRate)
    ELSE RDiv(loanAmount, R(numPayments))

monthlyMortgage ==
    IF RLt(Zero, monthlyRate)
    THEN RDiv(RMul(RMul(loanAmount, monthlyRate),
                   Pow(RAdd(One, monthlyRate), numPayments)),
              RSub(Pow(RAdd(One, monthlyRate), numPayments), One))
    ELSE RDiv(loanAmount, R(numPayments))

monthlyOwnershipExtra ==
    RDiv(RDiv(R(values.homePrice * values.annualOwnershipPercent), R(100)), R(12))

totalMonthlyOwnership == RAdd(monthlyMortgage, monthlyOwnershipExtra)

closingCost == RMul(R(values.homePrice), RDiv(R(values.closingCostsPercent), R(100)))

---------------------------------------------------------------------------
(* The body of the year loop, lines 80-127 *)

\* variant: the loop stops one year early
LoopConditionStrict(y) == y < values.timeHorizon

\* line 80: the loop condition
LoopCondition(y) == y <= values.timeHorizon

\* variant: the home value without appreciation
HomeValueFlat(y) == R(values.homePrice)

\* line 82
HomeValueAt(y) == RMul(R(values.homePrice), Pow(Growth(values.homeAppreciation), y))

\* variant: the closed form applied also after the last payment
BalanceAfterUnclamped(y, prev) ==
    IF y > 0 /\ RLt(Zero, monthlyRate)
    THEN RDiv(RMul(loanAmount,
                   RSub(Pow(RAdd(One, monthlyRate), numPayments),
                        Pow(RAdd(One, monthlyRate), y * 12))),
              RSub(Pow(RAdd(One, monthlyRate), numPayments), One))
    ELSE prev

\* lines 87-97: the balance after the payments of year y; prev is the carried value
BalanceAfter(y, prev) ==
    IF y > 0 /\ RLt(Zero, monthlyRate)
    THEN LET paymentsMade == y * 12
             remainingPayments == IF numPayments - paymentsMade > 0
                                  THEN numPayments - paymentsMade ELSE 0
         IN  IF remainingPayments > 0
             THEN RDiv(RMul(loanAmount,
                            RSub(Pow(RAdd(One, monthlyRate), numPayments),
                                 Pow(RAdd(One, monthlyRate), paymentsMade))),
                       RSub(Pow(RAdd(One, monthlyRate), numPayments), One))
             ELSE Zero
    ELSE prev

\* variant: selling costs charged in every year
SellingCostEveryYear(y, hv) == RMul(hv, RDiv(R(values.sellingCostsPercent), R(100)))

\* line 100
SellingCostAt(y, hv) ==
    IF y = values.timeHorizon
    THEN RMul(hv, RDiv(R(values.sellingCostsPercent), R(100)))
    ELSE Zero

\* line 103
CumulativeOwnershipCostsAt(y) == RMul(RMul(monthlyOwnershipExtra, R(12)), R(y))

\* variant: the closing costs are never charged against the buy net worth
ClosingDeductionNever(y) == Zero

\* line 108: the closing costs charged against the buy net worth of year y
ClosingDeduction(y) == IF y = 0 THEN closingCost ELSE Zero

\* line 108
BuyNetOf(y, hv, bal, sell, own) ==
    RSub(RSub(RSub(RSub(hv, bal), sell), ClosingDeduction(y)), own)

\* variant: the buy entry without the floor at zero
BuyEntryUnclamped(bn) == Round(bn)

\* line 109: the entry pushed on the buy series
BuyEntry(bn) == Round(Max0(bn))

\* variant: the renter invests the down payment only
initialInvestmentDownOnly == R(values.downPayment)

\* line 112
initialInvestment == RAdd(R(values.downPayment), closingCost)

\* line 113
InvestedInitialAt(y) == RMul(initialInvestment, Pow(Growth(values.investmentReturn), y))

\* variant: the yearly savings keep their sign
YearlySavingsSigned(rent) ==
    RSub(RMul(totalMonthlyOwnership, R(12)), RMul(rent, R(12)))

\* line 118
YearlySavingsOf(rent) ==
    Max0(RSub(RMul(totalMonthlyOwnership, R(12)), RMul(rent, R(12))))

\* variant: the reinvested savings rounded to whole units every year
SavingsAfterRounded(y, cum, rent) ==
    IF y > 0
    THEN Round(RMul(RAdd(cum, YearlySavingsOf(rent)), Growth(values.investmentReturn)))
    ELSE cum

\* lines 117-122: the reinvested savings after year y
SavingsAfter(y, cum, rent) ==
    IF y > 0
    THEN RMul(RAdd(cum, YearlySavingsOf(rent)), Growth(values.investmentReturn))
    ELSE cum

\* line 124: the entry pushed on the rent series
RentEntry(inv, cum) == Round(RAdd(inv, cum))

\* line 126: the rent carried into the next iteration
RentAfter(y, rent) ==
    IF y < values.timeHorizon THEN RMul(rent, Growth(values.rentIncrease)) ELSE rent

\* variant: a tie is reported as a win of renting
WinnerTieToRent(diff) == IF RGeq(diff, Zero) THEN "Rent & Invest" ELSE "Buy"

\* line 132
Winner(diff) == IF RLt(Zero, diff) THEN "Rent & Invest" ELSE "Buy"

---------------------------------------------------------------------------
(* The input record as React state and as localStorage item, lines 19-56.  *)
(* A JavaScript value is a number [n, d], a string [str |-> characters]    *)
(* or null; a text is a sequence of characters.                            *)

\* lines 19-32: the keys of the input record
Keys == {"homePrice", "downPayment", "mortgageRate", "mortgageTerm",
         "homeAppreciation", "initialRent", "rentIncrease",
         "investmentReturn", "timeHorizon", "closingCostsPercent",
         "sellingCostsPercent", "annualOwnershipPercent"}

\* lines 19-32
DEFAULT_VALUES ==
    [homePrice |-> R(500000), downPayment |-> R(100000),
     mortgageRate |-> RNorm(65, 10), mortgageTerm |-> R(30),
     homeAppreciation |-> R(3), initialRent |-> R(2500),
     rentIncrease |-> R(3), investmentReturn |-> R(7),
     timeHorizon |-> R(10), closingCostsPercent |-> R(3),
     sellingCostsPercent |-> R(6), annualOwnershipPercent |-> RNorm(15, 10)]

EmptyString == [str |-> <<>>]

Null == [null |-> TRUE]

IsString(v) == "str" \in DOMAIN v

IsNumber(v) == "n" \in DOMAIN v

DigitChars == <<"0", "1", "2", "3", "4", "5", "6", "7", "8", "9">>

IsDigit(c) == \E i \in 1..10 : DigitChars[i] = c

DigitVal(c) == (CHOOSE i \in 1..10 : DigitChars[i] = c) - 1

\* the decimal digits of a natural number
RECURSIVE NatToText(_)
NatToText(n) ==
    IF n < 10 THEN <<DigitChars[n + 1]>>
    ELSE Append(NatToText(n \div 10), DigitChars[(n % 10) + 1])

\* the digits after the point of r/d, 0 <= r < d, at most `left` of them
RECURSIVE FractionToText(_, _, _)
FractionToText(r, d, left) ==
    IF r = 0 \/ left = 0 THEN <<>>
    ELSE <<DigitChars[((10 * r) \div d) + 1]>>
             \o FractionToText((10 * r) % d, d, left - 1)

\* String(a) for a finite number a, in plain decimal notation
NumberToText(a) ==
    (IF a.n < 0 THEN <<"-">> ELSE <<>>)
      \o NatToText(Abs(a.n) \div a.d)
      \o (IF Abs(a.n) % a.d = 0 THEN <<>>
          ELSE <<".">> \o FractionToText(Abs(a.n) % a.d, a.d, MaxDigits))

RECURSIVE DigitsToNat(_)
DigitsToNat(ds) ==
    IF ds = <<>> THEN 0
    ELSE 10 * DigitsToNat(SubSeq(ds, 1, Len(ds) - 1)) + DigitVal(ds[Len(ds)])

\* Number(t) for a text t: a decimal numeral gives its value, the empty text
\* 0 and any other text NaN
TextToNumber(t) ==
    LET neg == t # <<>> /\ t[1] = "-"
        body == IF neg THEN Tail(t) ELSE t
        dots == {i \in 1..Len(body) : body[i] = "."}
        dot == IF dots = {} THEN Len(body) + 1
               ELSE CHOOSE i \in dots : \A j \in dots : i <= j
        ip == SubSeq(body, 1, dot - 1)
        fp == SubSeq(body, dot + 1, Len(body))
        valid == /\ Len(ip) + Len(fp) > 0
                 /\ \A i \in 1..Len(ip) : IsDigit(ip[i])
                 /\ \A i \in 1..Len(fp) : IsDigit(fp[i])
        mag == RNorm(DigitsToNat(ip \o fp), Pow(R(10), Len(fp)).n)
    IN  IF t = <<>> THEN Zero
        ELSE IF ~valid THEN NaN
        ELSE IF neg THEN RNeg(mag) ELSE mag

NullText == <<"n", "u", "l", "l">>

\* variant: only numbers are written, any other value as null
ValueToJSONNumbersOnly(v) ==
    IF IsNumber(v) /\ IsFinite(v) THEN NumberToText(v) ELSE NullText

\* the JSON text of one value: JSON.stringify writes a finite number as
\* String(number), any other number as null, a string between quotes
ValueToJSON(v) ==
    IF IsString(v) THEN <<"\"">> \o v.str \o <<"\"">>
    ELSE IF IsNumber(v) /\ IsFinite(v) THEN NumberToText(v)
    ELSE NullText

\* the value of a JSON text written by ValueToJSON
JSONToValue(t) ==
    IF t = NullText THEN Null
    ELSE IF t # <<>> /\ t[1] = "\"" THEN [str |-> SubSeq(t, 2, Len(t) - 1)]
    ELSE TextToNumber(t)

\* localStorage.getItem gives null when nothing is stored
NoItem == [none |-> TRUE]

\* an item whose text is not JSON
BrokenItem == [broken |-> TRUE]

\* line 50: JSON.stringify(values), an object with the JSON text of every member
Stringify(record) ==
    [members |-> [k \in DOMAIN record |-> ValueToJSON(record[k])]]

\* line 39: JSON.parse(saved)
Parse(item) ==
    [k \in DOMAIN item.members |-> JSONToValue(item.members[k])]

\* { ...a, ...b }
Spread(a, b) ==
    [k \in DOMAIN a \cup DOMAIN b |-> IF k \in DOMAIN b THEN b[k] ELSE a[k]]

\* variant: the stored record alone, without the defaults
InitialValuesStoredOnly(saved) ==
    IF saved = NoItem \/ saved = BrokenItem THEN DEFAULT_VALUES
    ELSE Parse(saved)

\* variant: an item that does not parse leaves every field empty
InitialValuesWithoutFallback(saved) ==
    IF saved = NoItem THEN DEFAULT_VALUES
    ELSE IF saved = BrokenItem THEN [k \in Keys |-> EmptyString]
    ELSE Spread(DEFAULT_VALUES, Parse(saved))

\* lines 35-45: the initializer of useState
InitialValues(saved) ==
    IF saved = NoItem THEN DEFAULT_VALUES
    ELSE IF saved = BrokenItem THEN DEFAULT_VALUES
    ELSE Spread(DEFAULT_VALUES, Parse(saved))

\* line 47: the panel starts hidden; no update is waiting
PanelClosed ==
    /\ showAdvanced = FALSE
    /\ updateQueue = <<>>

\* the payment in whole numbers of any size is not followed
PaymentAtRest ==
    /\ powCount = 0
    /\ powNum = <<1>>
    /\ powDen = <<1>>
    /\ payment = [num |-> <<>>, den |-> <<>>]

\* the state and the storage are not followed while a projection is examined
StoreAtRest ==
    /\ valuesState = DEFAULT_VALUES
    /\ stored = NoItem
    /\ effectPending = FALSE

---------------------------------------------------------------------------
(* The state machine of one render *)

\* the input records with the given loans and rates
InputsWith(downs, rates, terms, rentIncs, invRets) ==
    [homePrice : HomePrices, downPayment : downs,
     mortgageRate : rates, mortgageTerm : terms,
     homeAppreciation : HomeAppreciations, initialRent : InitialRents,
     rentIncrease : rentIncs, investmentReturn : invRets,
     timeHorizon : 0..MaxHorizon,
     closingCostsPercent : ClosingCostsPercents,
     sellingCostsPercent : SellingCostsPercents,
     annualOwnershipPercent : AnnualOwnershipPercents]

\* loans without interest, over every term
ZeroRateInputs ==
    InputsWith(DownPayments, {0}, MortgageTerms, RentIncreases, InvestmentReturns)

\* loans with interest that are repaid within the first year
ShortTermInputs ==
    InputsWith(DownPayments, MortgageRates \ {0}, {1}, RentIncreases,
               InvestmentReturns)

\* loans with interest that are still running after the first year; the
\* amounts are small because (1 + monthlyRate)^24 enters every rent-side value
AmortizedInputs ==
    InputsWith(SmallLoanDownPayments, MortgageRates \ {0}, MortgageTerms \ {1},
               {0}, InvestmentReturns)

Inputs == ZeroRateInputs \cup ShortTermInputs \cup AmortizedInputs

\* lines 72-78: the state on entry to the loop
\* lines 72-78: the state of a render before the first iteration of the loop
StartOfRender ==
    /\ pc = "loop"
    /\ year = 0
    /\ years = [i \in 1..(values.timeHorizon + 1) |-> i - 1]
    /\ buyNetWorth = <<>>
    /\ rentNetWorth = <<>>
    /\ currentRent = R(values.initialRent)
    /\ cumulativeSavings = Zero
    /\ remainingLoanBalance = loanAmount
    /\ homeValue = Undefined
    /\ sellingCost = Undefined
    /\ cumulativeOwnershipCosts = Undefined
    /\ buyNet = Undefined
    /\ investedInitial = Undefined
    /\ yearlySavings = Undefined
    /\ finalBuy = Undefined
    /\ finalRent = Undefined
    /\ difference = Undefined
    /\ winner = ""

Init ==
    /\ values \in Inputs
    /\ StartOfRender
    /\ renders = 1
    /\ StoreAtRest
    /\ PanelClosed
    /\ PaymentAtRest

\* lines 80-127: one iteration of the loop
LoopBody ==
    /\ pc = "loop"
    /\ LoopCondition(year)
    /\ LET hv == HomeValueAt(year)
           bal == BalanceAfter(year, remainingLoanBalance)
           sell == SellingCostAt(year, hv)
           own == CumulativeOwnershipCostsAt(year)
           bn == BuyNetOf(year, hv, bal, sell, own)
           inv == InvestedInitialAt(year)
           cum == SavingsAfter(year, cumulativeSavings, currentRent)
       IN  /\ homeValue' = hv
           /\ remainingLoanBalance' = bal
           /\ sellingCost' = sell
           /\ cumulativeOwnershipCosts' = own
           /\ buyNet' = bn
           /\ buyNetWorth' = Append(buyNetWorth, BuyEntry(bn))
           /\ investedInitial' = inv
           /\ yearlySavings' = IF year > 0 THEN YearlySavingsOf(currentRent)
                                           ELSE Undefined
           /\ cumulativeSavings' = cum
           /\ rentNetWorth' = Append(rentNetWorth, RentEntry(inv, cum))
           /\ currentRent' = RentAfter(year, currentRent)
    /\ year' = year + 1
    /\ UNCHANGED <<values, pc, years, finalBuy, finalRent, difference, winner,
                   renders, valuesState, stored, effectPending>>
    /\ UNCHANGED <<uiVars, paymentVars>>

\* lines 129-132: the loop has ended, the summary is computed
LoopExit ==
    /\ pc = "loop"
    /\ ~LoopCondition(year)
    /\ finalBuy' = At(buyNetWorth, values.timeHorizon)
    /\ finalRent' = At(rentNetWorth, values.timeHorizon)
    /\ difference' = JSSub(finalRent', finalBuy')
    /\ winner' = Winner(difference')
    /\ pc' = "done"
    /\ UNCHANGED <<values, year, years, buyNetWorth, rentNetWorth, currentRent,
                   cumulativeSavings, remainingLoanBalance, homeValue,
                   sellingCost, cumulativeOwnershipCosts, buyNet,
                   investedInitial, yearlySavings,
                   renders, valuesState, stored, effectPending>>
    /\ UNCHANGED <<uiVars, paymentVars>>

Next == LoopBody \/ LoopExit

Spec == Init /\ [][Next]_vars

---------------------------------------------------------------------------
(* Successive renders of App: every change of an input renders App again *)

\* the numbers that can be typed into the field of a key
FieldValues(key) ==
    CASE key = "homePrice" -> HomePrices
      [] key = "downPayment" -> DownPayments \cup SmallLoanDownPayments
      [] key = "mortgageRate" -> MortgageRates
      [] key = "mortgageTerm" -> MortgageTerms
      [] key = "homeAppreciation" -> HomeAppreciations
      [] key = "initialRent" -> InitialRents
      [] key = "rentIncrease" -> RentIncreases
      [] key = "investmentReturn" -> InvestmentReturns
      [] key = "timeHorizon" -> 0..MaxHorizon
      [] key = "closingCostsPercent" -> ClosingCostsPercents
      [] key = "sellingCostsPercent" -> SellingCostsPercents
      [] key = "annualOwnershipPercent" -> AnnualOwnershipPercents

\* lines 58-78: App is called again and evaluates lines 59-78 on the new record
RenderAgain ==
    /\ pc' = "loop"
    /\ year' = 0
    /\ years' = [i \in 1..(values'.timeHorizon + 1) |-> i - 1]
    /\ buyNetWorth' = <<>>
    /\ rentNetWorth' = <<>>
    /\ currentRent' = R(values'.initialRent)
    /\ cumulativeSavings' = Zero
    /\ remainingLoanBalance' = loanAmount'
    /\ homeValue' = Undefined
    /\ sellingCost' = Undefined
    /\ cumulativeOwnershipCosts' = Undefined
    /\ buyNet' = Undefined
    /\ investedInitial' = Undefined
    /\ yearlySavings' = Undefined
    /\ finalBuy' = Undefined
    /\ finalRent' = Undefined
    /\ difference' = Undefined
    /\ winner' = ""

\* variant: a new render that goes on with the accumulators of the last one
RerenderCarrying ==
    /\ pc = "done"
    /\ renders < MaxRenders
    /\ renders' = renders + 1
    /\ UNCHANGED <<valuesState, stored, effectPending>>
    /\ UNCHANGED <<uiVars, paymentVars>>
    /\ \E key \in Keys : \E val \in FieldValues(key) :
           values' = [values EXCEPT ![key] = val]
    /\ values' \in Inputs
    /\ pc' = "loop"
    /\ year' = 0
    /\ years' = [i \in 1..(values'.timeHorizon + 1) |-> i - 1]
    /\ buyNetWorth' = <<>>
    /\ rentNetWorth' = <<>>
    /\ UNCHANGED <<currentRent, cumulativeSavings, remainingLoanBalance,
                   homeValue, sellingCost, cumulativeOwnershipCosts, buyNet,
                   investedInitial, yearlySavings, finalBuy, finalRent,
                   difference, winner>>

\* lines 53-58: handleChange replaces the record by a copy with one field set
\* to the number typed (possibly the number it already held), and App is
\* rendered again: lines 59-78 are evaluated anew
Rerender ==
    /\ pc = "done"
    /\ renders < MaxRenders
    /\ renders' = renders + 1
    /\ UNCHANGED <<valuesState, stored, effectPending>>
    /\ UNCHANGED <<uiVars, paymentVars>>
    /\ \E key \in Keys : \E val \in FieldValues(key) :
           values' = [values EXCEPT ![key] = val]
    /\ values' \in Inputs
    /\ RenderAgain

\* variant: hiding or showing the panel resets the three advanced percentages
ToggleAdvancedResetting ==
    /\ pc = "done"
    /\ renders < MaxRenders
    /\ renders' = renders + 1
    /\ showAdvanced' = ~showAdvanced
    /\ values' = [values EXCEPT !.closingCostsPercent = 0,
                                !.sellingCostsPercent = 0,
                                !.annualOwnershipPercent = 0]
    /\ UNCHANGED <<valuesState, stored, effectPending, updateQueue>>
    /\ UNCHANGED paymentVars
    /\ RenderAgain

\* line 229: the button sets showAdvanced to its negation, and App is rendered
\* again on the same record
ToggleAdvanced ==
    /\ pc = "done"
    /\ renders < MaxRenders
    /\ renders' = renders + 1
    /\ showAdvanced' = ~showAdvanced
    /\ UNCHANGED values
    /\ UNCHANGED <<valuesState, stored, effectPending, updateQueue>>
    /\ UNCHANGED paymentVars
    /\ RenderAgain

RenderNext == LoopBody \/ LoopExit \/ Rerender \/ ToggleAdvanced

RenderSpec == Init /\ [][RenderNext]_vars

---------------------------------------------------------------------------
(* The input form and its persistence, lines 35-56 *)

\* the fields edited in a run and the texts typed into them
EditedKeys == {"homePrice", "timeHorizon", "annualOwnershipPercent"}

TypedTexts == {<<>>, <<"7">>, <<"2", ".", "5">>}

\* the nine inputs of the first version of the form
CoreKeys == Keys \ {"closingCostsPercent", "sellingCostsPercent",
                    "annualOwnershipPercent"}

\* what an earlier session can have left in localStorage
StoredItems ==
    {NoItem, BrokenItem}
      \cup {[members |-> [k \in ks |-> t]] :
              ks \in {Keys, CoreKeys, {"homePrice"}, {}},
              t \in {<<"7">>, <<"2", ".", "5">>, <<"\"", "\"">>, NullText}}

\* the projection is not followed while the form and the storage are examined
ProjectionAtRest ==
    /\ values = [k \in Keys |-> 0]
    /\ pc = "idle"
    /\ year = 0
    /\ years = <<>>
    /\ buyNetWorth = <<>>
    /\ rentNetWorth = <<>>
    /\ currentRent = Undefined
    /\ cumulativeSavings = Undefined
    /\ remainingLoanBalance = Undefined
    /\ homeValue = Undefined
    /\ sellingCost = Undefined
    /\ cumulativeOwnershipCosts = Undefined
    /\ buyNet = Undefined
    /\ investedInitial = Undefined
    /\ yearlySavings = Undefined
    /\ finalBuy = Undefined
    /\ finalRent = Undefined
    /\ difference = Undefined
    /\ winner = ""
    /\ renders = 0

projectionVars == <<values, pc, year, years, buyNetWorth, rentNetWorth,
                    currentRent, cumulativeSavings, remainingLoanBalance,
                    homeValue, sellingCost, cumulativeOwnershipCosts, buyNet,
                    investedInitial, yearlySavings, finalBuy, finalRent,
                    difference, winner, renders>>

\* lines 35-51: App is mounted; the effect runs after the first render
StoreInit ==
    /\ stored \in StoredItems
    /\ valuesState = InitialValues(stored)
    /\ effectPending = TRUE
    /\ ProjectionAtRest
    /\ PanelClosed
    /\ PaymentAtRest

\* variant: the new record holds the changed field only
HandleChangeReplacing(key, text) ==
    /\ valuesState' = [k \in {key} |-> IF text = <<>> THEN EmptyString
                                       ELSE TextToNumber(text)]
    /\ effectPending' = TRUE
    /\ UNCHANGED stored
    /\ UNCHANGED projectionVars
    /\ UNCHANGED <<uiVars, paymentVars>>

\* lines 53-56: handleChange(key) on an event whose target holds `text`
HandleChange(key, text) ==
    /\ valuesState' = [valuesState EXCEPT
                         ![key] = IF text = <<>> THEN EmptyString
                                  ELSE TextToNumber(text)]
    /\ effectPending' = TRUE
    /\ UNCHANGED stored
    /\ UNCHANGED projectionVars
    /\ UNCHANGED <<uiVars, paymentVars>>

\* lines 49-51: the effect writes the record to localStorage
Persist ==
    /\ effectPending
    /\ stored' = Stringify(valuesState)
    /\ effectPending' = FALSE
    /\ UNCHANGED valuesState
    /\ UNCHANGED projectionVars
    /\ UNCHANGED <<uiVars, paymentVars>>

\* lines 35-51: the page is loaded again and App is mounted from the item
Reload ==
    /\ valuesState' = InitialValues(stored)
    /\ effectPending' = TRUE
    /\ UNCHANGED stored
    /\ UNCHANGED projectionVars
    /\ UNCHANGED <<uiVars, paymentVars>>

StoreNext ==
    \/ \E key \in EditedKeys : \E text \in TypedTexts : HandleChange(key, text)
    \/ Persist
    \/ Reload

StoreSpec == StoreInit /\ [][StoreNext]_vars

---------------------------------------------------------------------------
(* Updates of the record that wait for the next render, lines 53-56 *)

\* variant: the update is built from the record of the last render
ApplyUpdateFromSnapshot(prev, snapshot, u) == [snapshot EXCEPT ![u.key] = u.val]

\* line 55: (prev) => ({ ...prev, [key]: val })
ApplyUpdate(prev, snapshot, u) == [prev EXCEPT ![u.key] = u.val]

\* the waiting updates applied in the order of their dispatch
RECURSIVE ApplyAll(_, _, _)
ApplyAll(prev, snapshot, queue) ==
    IF queue = <<>> THEN prev
    ELSE ApplyAll(ApplyUpdate(prev, snapshot, Head(queue)), snapshot, Tail(queue))

QueueInit ==
    /\ valuesState = DEFAULT_VALUES
    /\ stored = NoItem
    /\ effectPending = TRUE
    /\ ProjectionAtRest
    /\ PanelClosed
    /\ PaymentAtRest

\* lines 53-55: handleChange computes val and passes the update to setValues,
\* where it waits for the next render
SetValues(key, text) ==
    /\ Len(updateQueue) < MaxPending
    /\ updateQueue' = Append(updateQueue,
                             [key |-> key,
                              val |-> IF text = <<>> THEN EmptyString
                                      ELSE TextToNumber(text)])
    /\ UNCHANGED <<valuesState, stored, effectPending, showAdvanced>>
    /\ UNCHANGED projectionVars
    /\ UNCHANGED paymentVars

\* line 35: the next render takes the record with every waiting update applied
ApplyUpdates ==
    /\ updateQueue # <<>>
    /\ renders < MaxRenders
    /\ renders' = renders + 1
    /\ valuesState' = ApplyAll(valuesState, valuesState, updateQueue)
    /\ updateQueue' = <<>>
    /\ effectPending' = TRUE
    /\ UNCHANGED <<stored, showAdvanced>>
    /\ UNCHANGED <<values, pc, year, years, buyNetWorth, rentNetWorth,
                   currentRent, cumulativeSavings, remainingLoanBalance,
                   homeValue, sellingCost, cumulativeOwnershipCosts, buyNet,
                   investedInitial, yearlySavings, finalBuy, finalRent,
                   difference, winner>>
    /\ UNCHANGED paymentVars

QueueNext ==
    \/ \E key \in EditedKeys : \E text \in TypedTexts : SetValues(key, text)
    \/ ApplyUpdates

QueueSpec == QueueInit /\ [][QueueNext]_vars

---------------------------------------------------------------------------
(* The monthly payment of lines 59-64 for the default record, whose power   *)
(* (1 + monthlyRate)^numPayments needs whole numbers of any size: a whole   *)
(* number is the sequence of its digits in base 10000, lowest digit first.  *)

RECURSIVE NatToBig(_)
NatToBig(n) ==
    IF n < 10000 THEN <<n>> ELSE <<n % 10000>> \o NatToBig(n \div 10000)

\* the digits lo..hi of a * m + carry, and the carry that leaves them
RECURSIVE BigMulRange(_, _, _, _, _)
BigMulRange(a, m, lo, hi, carry) ==
    IF lo > hi THEN [digits |-> <<>>, carry |-> carry]
    ELSE IF lo = hi
    THEN [digits |-> <<(a[lo] * m + carry) % 10000>>,
          carry |-> (a[lo] * m + carry) \div 10000]
    ELSE LET mid == (lo + hi) \div 2
             low == BigMulRange(a, m, lo, mid, carry)
             high == BigMulRange(a, m, mid + 1, hi, low.carry)
         IN  [digits |-> low.digits \o high.digits, carry |-> high.carry]

\* a * m for a small whole number m > 0
BigMul(a, m) ==
    LET r == BigMulRange(a, m, 1, Len(a), 0)
    IN  IF r.carry = 0 THEN r.digits ELSE r.digits \o NatToBig(r.carry)

RECURSIVE BigStrip(_)
BigStrip(a) ==
    IF Len(a) > 1 /\ a[Len(a)] = 0 THEN BigStrip(SubSeq(a, 1, Len(a) - 1)) ELSE a

\* the digits lo..hi of a - b - borrow, and the borrow that leaves them
RECURSIVE BigSubRange(_, _, _, _, _)
BigSubRange(a, b, lo, hi, borrow) ==
    IF lo > hi THEN [digits |-> <<>>, borrow |-> borrow]
    ELSE IF lo = hi
    THEN LET t == a[lo] - (IF lo <= Len(b) THEN b[lo] ELSE 0) - borrow
         IN  IF t < 0 THEN [digits |-> <<t + 10000>>, borrow |-> 1]
             ELSE [digits |-> <<t>>, borrow |-> 0]
    ELSE LET mid == (lo + hi) \div 2
             low == BigSubRange(a, b, lo, mid, borrow)
             high == BigSubRange(a, b, mid + 1, hi, low.borrow)
         IN  [digits |-> low.digits \o high.digits, borrow |-> high.borrow]

\* a - b for a >= b
BigSub(a, b) == BigStrip(BigSubRange(a, b, 1, Len(a), 0).digits)

\* a <= b
BigLeq(a, b) ==
    IF Len(a) # Len(b) THEN Len(a) < Len(b)
    ELSE LET differ == {i \in 1..Len(a) : a[i] # b[i]}
         IN  \/ differ = {}
             \/ \E i \in differ : /\ \A k \in differ : k <= i
                                  /\ a[i] < b[i]

\* line 59, on the record of the state
StateLoanAmount == Max0(RSub(valuesState.homePrice, valuesState.downPayment))

\* variant: the yearly rate taken as the monthly rate
StateMonthlyRateYearly == RDiv(valuesState.mortgageRate, R(100))

\* line 60
StateMonthlyRate == RDiv(RDiv(valuesState.mortgageRate, R(100)), R(12))

\* line 61
StateNumPayments == valuesState.mortgageTerm.n * 12

\* the default record, also with a shorter term and without interest
PaymentInputs ==
    {[DEFAULT_VALUES EXCEPT !.mortgageTerm = R(t), !.mortgageRate = r] :
        t \in {15, 30}, r \in {RNorm(13, 2), Zero}}

PaymentInit ==
    /\ valuesState \in PaymentInputs
    /\ stored = NoItem
    /\ effectPending = FALSE
    /\ ProjectionAtRest
    /\ PanelClosed
    /\ PaymentAtRest

\* line 63: Math.pow(1 + monthlyRate, numPayments), one factor at a time
PowStep ==
    /\ payment.den = <<>>
    /\ RLt(Zero, StateMonthlyRate)
    /\ powCount < StateNumPayments
    /\ powCount' = powCount + 1
    /\ powNum' = BigMul(powNum, RAdd(One, StateMonthlyRate).n)
    /\ powDen' = BigMul(powDen, RAdd(One, StateMonthlyRate).d)
    /\ UNCHANGED payment
    /\ UNCHANGED <<valuesState, stored, effectPending>>
    /\ UNCHANGED projectionVars
    /\ UNCHANGED uiVars

\* lines 62-64: loanAmount * monthlyRate * p / (p - 1) with p = powNum / powDen,
\* that is loanAmount * monthlyRate * powNum / (powNum - powDen), or
\* loanAmount / numPayments without interest
MonthlyMortgageStep ==
    /\ payment.den = <<>>
    /\ RLt(Zero, StateMonthlyRate) => powCount = StateNumPayments
    /\ payment' =
         IF RLt(Zero, StateMonthlyRate)
         THEN [num |-> BigMul(powNum, RMul(StateLoanAmount, StateMonthlyRate).n),
               den |-> BigMul(BigSub(powNum, powDen),
                              RMul(StateLoanAmount, StateMonthlyRate).d)]
         ELSE [num |-> NatToBig(StateLoanAmount.n),
               den |-> NatToBig(StateLoanAmount.d * StateNumPayments)]
    /\ UNCHANGED <<powCount, powNum, powDen>>
    /\ UNCHANGED <<valuesState, stored, effectPending>>
    /\ UNCHANGED projectionVars
    /\ UNCHANGED uiVars

PaymentNext == PowStep \/ MonthlyMortgageStep

PaymentSpec == PaymentInit /\ [][PaymentNext]_vars

---------------------------------------------------------------------------
(* Properties of the projection *)

\* the year whose iteration ran last (meaningful once year >= 1)
lastYear == year - 1

\* C1: for every integer timeHorizon H >= 0 the loop pushes one entry per
\* year on each series, in the order 0..H: while the loop runs both series
\* hold exactly the years below the counter, after it they hold H+1 entries,
\* the years array is 0..H, and entry i of the buy series is the value
\* computed from year i.
C1_SeriesLength ==
    /\ Len(buyNetWorth) = Len(rentNetWorth)
    /\ pc = "loop" => Len(buyNetWorth) = year /\ year <= values.timeHorizon + 1
    /\ pc = "done" => /\ Len(buyNetWorth) = values.timeHorizon + 1
                      /\ Len(years) = values.timeHorizon + 1
                      /\ \A i \in 0..values.timeHorizon : years[i + 1] = i
    /\ \A i \in DOMAIN buyNetWorth :
          buyNetWorth[i] =
              LET y == i - 1
                  hv == RMul(R(values.homePrice), Pow(Growth(values.homeAppreciation), y))
              IN  Round(Max0(BuyNetOf(y, hv, BalanceAfter(y, loanAmount),
                                      SellingCostAt(y, hv),
                                      CumulativeOwnershipCostsAt(y))))

C1_Witness ==
    /\ pc = "done"
    /\ values.timeHorizon >= 2
    /\ Len(buyNetWorth) = values.timeHorizon + 1
    /\ buyNetWorth[1] # buyNetWorth[2]
    /\ buyNetWorth[2] # buyNetWorth[3]

\* C2: every entry of the buy series is >= 0, also when the position is
\* under water (buyNet < 0), which is reported as 0.
C2_BuyNonNegative ==
    \A i \in DOMAIN buyNetWorth : RGeq(buyNetWorth[i], Zero)

C2_Witness ==
    /\ year >= 1
    /\ RLt(buyNet, Zero)
    /\ buyNetWorth[year] = Zero

\* C3: finalBuy and finalRent are the entries at index timeHorizon,
\* difference is finalRent - finalBuy, and the winner is the rent label
\* exactly when difference > 0, the buy label otherwise (a tie is a buy).
C3_Summary ==
    pc = "done" =>
        /\ finalBuy = buyNetWorth[values.timeHorizon + 1]
        /\ finalRent = rentNetWorth[values.timeHorizon + 1]
        /\ difference = RSub(finalRent, finalBuy)
        /\ winner \in {"Rent & Invest", "Buy"}
        /\ winner = "Rent & Invest" <=> difference.n > 0
        /\ difference.n = 0 => winner = "Buy"

C3_Witness ==
    /\ pc = "done"
    /\ values.timeHorizon >= 1
    /\ finalBuy = finalRent
    /\ finalBuy # Zero
    /\ difference = Zero
    /\ winner = "Buy"

\* C4: for every year y the reported buy net worth is
\* round(max(0, homeValue(y) - remainingLoanBalance(y) - sellingCost(y)
\*              - closingCost - 12 * y * monthlyOwnershipExtra)),
\* the closing cost being deducted in every year.
C4_ClosingCostEveryYear ==
    year >= 1 =>
        buyNetWorth[year] =
            Round(Max0(RSub(RSub(RSub(RSub(homeValue, remainingLoanBalance),
                                      sellingCost),
                                 RDiv(R(values.homePrice * values.closingCostsPercent),
                                      R(100))),
                            RMul(R(12 * lastYear), monthlyOwnershipExtra))))

\* C5: for every year y the rent entry is
\* round((downPayment + closingCost) * (1 + investmentReturn/100)^y
\*       + cumulativeSavings), and the entry of year 0 is
\* round(downPayment + closingCost).
C5_RentEntry ==
    LET lump == RAdd(R(values.downPayment),
                     RDiv(R(values.homePrice * values.closingCostsPercent), R(100)))
    IN  /\ Len(rentNetWorth) >= 1 => rentNetWorth[1] = Round(lump)
        /\ year >= 1 =>
              rentNetWorth[year] =
                  Round(RAdd(RMul(lump, Pow(Growth(values.investmentReturn), lastYear)),
                             cumulativeSavings))

C5_Witness ==
    /\ year >= 3
    /\ values.downPayment > 0
    /\ closingCost.n > 0
    /\ cumulativeSavings.n > 0
    /\ values.investmentReturn > 0
    /\ rentNetWorth[year] # rentNetWorth[1]

\* C6: the selling cost is homeValue * sellingCostsPercent/100 in the year
\* y = timeHorizon and 0 in every year y < timeHorizon, where nothing is
\* deducted for it from the buy net worth.
C6_SellingCostOnlyAtHorizon ==
    year >= 1 =>
        /\ lastYear < values.timeHorizon =>
              /\ sellingCost = Zero
              /\ buyNet = RSub(RSub(RSub(homeValue, remainingLoanBalance),
                                    IF lastYear = 0 THEN closingCost ELSE Zero),
                               cumulativeOwnershipCosts)
        /\ lastYear = values.timeHorizon =>
              sellingCost = RDiv(RMul(homeValue, R(values.sellingCostsPercent)), R(100))

C6_Witness ==
    /\ year >= 2
    /\ lastYear < values.timeHorizon
    /\ values.sellingCostsPercent > 0
    /\ homeValue.n > 0
    /\ sellingCost = Zero

\* C7: for any mortgageRate >= 0 and timeHorizon >= mortgageTerm > 0 the
\* remaining loan balance of year y = mortgageTerm and of every later year is 0.
C7_PaidOffAtTermEnd ==
    (/\ year >= 1
     /\ values.mortgageRate >= 0
     /\ values.mortgageTerm > 0
     /\ lastYear >= values.mortgageTerm) => remainingLoanBalance = Zero

\* C8: with mortgageRate = 0 and mortgageTerm > 0 the remaining loan balance
\* of year y is loanAmount * (1 - 12y/numPayments) while 12y <= numPayments.
C8_ZeroRateLinear ==
    (/\ year >= 1
     /\ values.mortgageRate = 0
     /\ values.mortgageTerm > 0
     /\ 12 * lastYear <= numPayments) =>
        remainingLoanBalance =
            RMul(loanAmount, RSub(One, RDiv(R(12 * lastYear), R(numPayments))))

\* C9: in every year y >= 1 the amount 12 * totalMonthlyOwnership
\* - 12 * currentRent is added to the cumulative savings with its sign, a
\* negative amount when the rent exceeds the ownership cost.
C9_SignedSavings ==
    [][(year' = year + 1 /\ year >= 1) =>
          LET signed == RSub(RMul(R(12), totalMonthlyOwnership),
                             RMul(R(12), currentRent))
          IN  /\ yearlySavings' = signed
              /\ cumulativeSavings' =
                     RMul(RAdd(cumulativeSavings, signed),
                          Growth(values.investmentReturn))]_vars

\* C10 as stated: every entry of the rent series is >= 0 for every accepted
\* input record, whatever the sign of the rates.
C10_RentNonNegative ==
    \A i \in DOMAIN rentNetWorth : RGeq(rentNetWorth[i], Zero)

\* C10 amended: every entry of the rent series is >= 0 when the amounts and
\* percentages are non-negative and investmentReturn >= -100, so that the
\* growth factor 1 + investmentReturn/100 is not negative.
C10_RentNonNegativeAmended ==
    (/\ values.investmentReturn >= -100
     /\ values.homePrice >= 0
     /\ values.downPayment >= 0
     /\ values.initialRent >= 0
     /\ values.closingCostsPercent >= 0
     /\ values.annualOwnershipPercent >= 0
     /\ values.mortgageTerm > 0) =>
        \A i \in DOMAIN rentNetWorth : RGeq(rentNetWorth[i], Zero)

C10_Witness ==
    /\ year >= 3
    /\ values.investmentReturn < 0
    /\ values.investmentReturn >= -100
    /\ RLt(totalMonthlyOwnership, R(values.initialRent))
    /\ yearlySavings = Zero
    /\ RGeq(rentNetWorth[year], Zero)

---------------------------------------------------------------------------
(* Input records that the form accepts although the configuration is invalid *)

ConfigHorizons == {-1, 0, 1, 2}

ConfigInputs ==
    [homePrice : {-100, 100}, downPayment : {-40, 40},
     mortgageRate : MortgageRates, mortgageTerm : {-1, 0, 1},
     homeAppreciation : {100}, initialRent : {-5, 5},
     rentIncrease : {0}, investmentReturn : {0, 100},
     timeHorizon : ConfigHorizons,
     closingCostsPercent : {5},
     sellingCostsPercent : {10},
     annualOwnershipPercent : {12}]

\* lines 53-56: handleChange stores whatever number was typed
InvalidInputs ==
    {v \in ConfigInputs : \/ v.timeHorizon <= 0
                          \/ v.mortgageTerm <= 0
                          \/ v.homePrice < 0
                          \/ v.downPayment < 0
                          \/ v.initialRent < 0}

ConfigInit ==
    /\ values \in InvalidInputs
    /\ StartOfRender
    /\ renders = 1
    /\ StoreAtRest
    /\ PanelClosed
    /\ PaymentAtRest

ConfigSpec == ConfigInit /\ [][Next]_vars

---------------------------------------------------------------------------

\* C11 as stated: with timeHorizon = 0 the result has the single entry of
\* year 0 and buyNetWorth(0) = round(max(0, homePrice - loanAmount
\* - closingCost)), nothing else being deducted.
C11_HorizonZeroClosingOnly ==
    (pc = "done" /\ values.timeHorizon = 0) =>
        /\ Len(buyNetWorth) = 1
        /\ buyNetWorth[1] =
               Round(Max0(RSub(RSub(R(values.homePrice),
                                    Max0(R(values.homePrice - values.downPayment))),
                               RDiv(R(values.homePrice * values.closingCostsPercent),
                                    R(100)))))

\* C11 amended: with timeHorizon = 0 the result has the single entry of
\* year 0, which is also the terminal year, so that buyNetWorth(0) =
\* round(max(0, homePrice - loanAmount - homePrice * sellingCostsPercent/100
\* - closingCost)).
C11_HorizonZeroAmended ==
    (pc = "done" /\ values.timeHorizon = 0) =>
        /\ Len(buyNetWorth) = 1
        /\ Len(rentNetWorth) = 1
        /\ buyNetWorth[1] =
               Round(Max0(RSub(RSub(RSub(R(values.homePrice),
                                         Max0(R(values.homePrice - values.downPayment))),
                                    RDiv(R(values.homePrice * values.sellingCostsPercent),
                                         R(100))),
                               RDiv(R(values.homePrice * values.closingCostsPercent),
                                    R(100)))))

C11_Witness ==
    /\ pc = "done"
    /\ values.timeHorizon = 0
    /\ values.sellingCostsPercent > 0
    /\ values.closingCostsPercent > 0
    /\ values.homeAppreciation > 0
    /\ buyNetWorth = <<R(25)>>

\* C12: the rent is escalated once per completed year and not before the
\* first year has completed: the savings of year y >= 1 are computed against
\* initialRent * (1 + rentIncrease/100)^(y-1), those of year 1 against
\* initialRent.
C12_RentOfYear ==
    (pc = "loop" /\ year >= 1 /\ year <= values.timeHorizon) =>
        currentRent = RMul(R(values.initialRent),
                           Pow(Growth(values.rentIncrease), year - 1))

\* the sum over the years k = 1..y of 12 * totalMonthlyOwnership - 12 * rent,
\* the rent of year k being initialRent * (1 + rentIncrease/100)^k
RECURSIVE SumOfSignedSavings(_)
SumOfSignedSavings(y) ==
    IF y = 0 THEN Zero
    ELSE RAdd(SumOfSignedSavings(y - 1),
              RSub(RMul(R(12), totalMonthlyOwnership),
                   RMul(R(12), RMul(R(values.initialRent),
                                    Pow(Growth(values.rentIncrease), y)))))

\* C13: with investmentReturn = 0 the cumulative savings after year y are the
\* plain sum over the years 1..y of 12 * totalMonthlyOwnership - 12 * rent.
C13_PlainSum ==
    (values.investmentReturn = 0 /\ year >= 1) =>
        cumulativeSavings = SumOfSignedSavings(lastYear)

\* C14 as stated: with homeAppreciation > 0 the home value of every year is
\* greater than that of the year before, for any non-negative homePrice.
C14_Appreciation ==
    [][(year' = year + 1 /\ year >= 1 /\ values.homeAppreciation > 0)
          => RLt(homeValue, homeValue')]_vars

\* C14 amended: with homeAppreciation > 0 and homePrice > 0 the home value of
\* every year is greater than that of the year before, and it is
\* homePrice * (1 + homeAppreciation/100)^y.
C14_AppreciationAmended ==
    [][(year' = year + 1 /\ year >= 1 /\ values.homeAppreciation > 0
                         /\ values.homePrice > 0)
          => /\ RLt(homeValue, homeValue')
             /\ homeValue' = RMul(R(values.homePrice),
                                  Pow(RDiv(R(100 + values.homeAppreciation), R(100)),
                                      year))]_vars

C14_Witness ==
    /\ year >= 3
    /\ values.homeAppreciation > 0
    /\ values.homePrice > 0
    /\ RLt(R(2 * values.homePrice), homeValue)

\* C20: loanAmount = max(0, homePrice - downPayment) is never negative; when
\* downPayment >= homePrice and mortgageTerm > 0, the loan amount, the monthly
\* mortgage payment and the remaining balance of every year are 0 and the
\* projection still ends with a complete result.
C20_NoLoan ==
    /\ RGeq(loanAmount, Zero)
    /\ (values.downPayment >= values.homePrice /\ values.mortgageTerm > 0) =>
           /\ loanAmount = Zero
           /\ monthlyMortgage = Zero
           /\ remainingLoanBalance = Zero
           /\ pc = "done" =>
                  /\ Len(buyNetWorth) = values.timeHorizon + 1
                  /\ Len(rentNetWorth) = values.timeHorizon + 1
                  /\ finalBuy # Undefined /\ IsFinite(finalBuy)
                  /\ finalRent # Undefined /\ IsFinite(finalRent)
                  /\ difference = RSub(finalRent, finalBuy)
                  /\ winner \in {"Buy", "Rent & Invest"}

C20_Witness ==
    /\ pc = "done"
    /\ values.downPayment > values.homePrice
    /\ values.homePrice > 0
    /\ values.mortgageRate > 0
    /\ values.mortgageTerm > 0
    /\ values.timeHorizon >= 2
    /\ remainingLoanBalance = Zero

\* the rent, the savings and the balance of year y, computed by lines 80-127
\* from the input record alone
RECURSIVE RentOfYear(_)
RentOfYear(y) ==
    IF y = 0 THEN R(values.initialRent) ELSE RentAfter(y - 1, RentOfYear(y - 1))

RECURSIVE SavingsOfYear(_)
SavingsOfYear(y) ==
    IF y = 0 THEN SavingsAfter(0, Zero, RentOfYear(0))
    ELSE SavingsAfter(y, SavingsOfYear(y - 1), RentOfYear(y))

RECURSIVE BalanceOfYear(_)
BalanceOfYear(y) ==
    IF y = 0 THEN BalanceAfter(0, loanAmount)
    ELSE BalanceAfter(y, BalanceOfYear(y - 1))

BuyOfYear(y) ==
    BuyEntry(BuyNetOf(y, HomeValueAt(y), BalanceOfYear(y),
                      SellingCostAt(y, HomeValueAt(y)),
                      CumulativeOwnershipCostsAt(y)))

RentNetOfYear(y) == RentEntry(InvestedInitialAt(y), SavingsOfYear(y))

\* C15: the result depends on the current input record only, whatever was
\* rendered before: every render starts from fresh accumulators, and when it
\* has ended the series, the finals, the difference and the winner are the
\* ones computed from the record alone.
C15_ResultOfInputsOnly ==
    /\ (pc = "loop" /\ year = 0) =>
           /\ currentRent = R(values.initialRent)
           /\ cumulativeSavings = Zero
           /\ remainingLoanBalance = loanAmount
    /\ pc = "done" =>
           /\ buyNetWorth = [i \in 1..(values.timeHorizon + 1) |-> BuyOfYear(i - 1)]
           /\ rentNetWorth = [i \in 1..(values.timeHorizon + 1) |-> RentNetOfYear(i - 1)]
           /\ finalBuy = BuyOfYear(values.timeHorizon)
           /\ finalRent = RentNetOfYear(values.timeHorizon)
           /\ difference = RSub(finalRent, finalBuy)
           /\ winner = Winner(difference)

\* C18: with mortgageTerm = 0 nothing is divided by zero: the monthly payment
\* and the values derived from it are never NaN or Infinity, and the
\* remaining balance is 0 in every year y >= 0.
C18_ZeroTerm ==
    values.mortgageTerm = 0 =>
        /\ IsFinite(monthlyMortgage)
        /\ IsFinite(totalMonthlyOwnership)
        /\ IsFinite(cumulativeSavings)
        /\ \A i \in DOMAIN rentNetWorth : IsFinite(rentNetWorth[i])
        /\ remainingLoanBalance = Zero

\* C19: an invalid configuration (timeHorizon <= 0, mortgageTerm <= 0, or a
\* negative homePrice, downPayment or initialRent) is rejected before anything
\* is computed: no entry of a series, no final value and no winner is ever
\* produced for it.
C19_InvalidRejected ==
    (\/ values.timeHorizon <= 0
     \/ values.mortgageTerm <= 0
     \/ values.homePrice < 0
     \/ values.downPayment < 0
     \/ values.initialRent < 0) =>
        /\ buyNetWorth = <<>>
        /\ rentNetWorth = <<>>
        /\ finalBuy = Undefined
        /\ finalRent = Undefined
        /\ winner = ""

\* C16: once the effect has run, the item stored under 'buyVsRentInputs' is
\* the current input record, and loading the page again restores exactly
\* that record, a field left empty included, instead of the defaults.
C16_PersistedAndRestored ==
    ~effectPending =>
        /\ stored = Stringify(valuesState)
        /\ DOMAIN stored.members = DOMAIN valuesState
        /\ \A k \in DOMAIN valuesState :
               (valuesState[k] = EmptyString) <=> (stored.members[k] = <<"\"", "\"">>)
        /\ InitialValues(stored) = valuesState

C16_Witness ==
    /\ ~effectPending
    /\ valuesState.timeHorizon = EmptyString
    /\ valuesState.homePrice = RNorm(5, 2)
    /\ valuesState.annualOwnershipPercent = R(7)
    /\ valuesState.mortgageRate = RNorm(13, 2)
    /\ stored.members.homePrice = <<"2", ".", "5">>
    /\ stored.members.mortgageRate = <<"6", ".", "5">>

\* C17: when the page is loaded, every field absent from the stored record
\* takes its default (closingCostsPercent 3, sellingCostsPercent 6,
\* annualOwnershipPercent 1.5 and the nine core defaults) and every field
\* present in it keeps its stored value.
C17_DefaultsForAbsent ==
    [][Reload =>
         /\ DOMAIN valuesState' = Keys
         /\ \A k \in Keys :
                IF stored \in {NoItem, BrokenItem} \/ k \notin DOMAIN stored.members
                THEN valuesState'[k] =
                       CASE k = "homePrice" -> R(500000)
                         [] k = "downPayment" -> R(100000)
                         [] k = "mortgageRate" -> RDiv(R(13), R(2))
                         [] k = "mortgageTerm" -> R(30)
                         [] k = "homeAppreciation" -> R(3)
                         [] k = "initialRent" -> R(2500)
                         [] k = "rentIncrease" -> R(3)
                         [] k = "investmentReturn" -> R(7)
                         [] k = "timeHorizon" -> R(10)
                         [] k = "closingCostsPercent" -> R(3)
                         [] k = "sellingCostsPercent" -> R(6)
                         [] k = "annualOwnershipPercent" -> RDiv(R(3), R(2))
                ELSE valuesState'[k] = JSONToValue(stored.members[k])]_vars

C17_Witness ==
    /\ stored # NoItem /\ stored # BrokenItem
    /\ DOMAIN stored.members = CoreKeys
    /\ effectPending
    /\ valuesState.homePrice = R(7)
    /\ valuesState.closingCostsPercent = R(3)
    /\ valuesState.sellingCostsPercent = R(6)
    /\ valuesState.annualOwnershipPercent = RNorm(3, 2)

C15_Witness ==
    /\ pc = "done"
    /\ renders = 2
    /\ ~showAdvanced
    /\ values.timeHorizon >= 2
    /\ cumulativeSavings.n > 0
    /\ remainingLoanBalance.n > 0

\* C21: with mortgageRate = 0 and mortgageTerm > 0 the monthly payment is
\* loanAmount / (12 * mortgageTerm), a finite number, and numPayments such
\* payments repay exactly the principal.
C21_ZeroRatePayment ==
    (values.mortgageRate = 0 /\ values.mortgageTerm > 0) =>
        /\ IsFinite(monthlyMortgage)
        /\ monthlyMortgage =
               RDiv(Max0(R(values.homePrice - values.downPayment)),
                    R(12 * values.mortgageTerm))
        /\ RMul(R(numPayments), monthlyMortgage) =
               Max0(R(values.homePrice - values.downPayment))
        /\ (year >= 2 => IsFinite(cumulativeSavings))

C21_Witness ==
    /\ values.mortgageRate = 0
    /\ values.mortgageTerm = 2
    /\ year >= 2
    /\ monthlyMortgage = RDiv(R(5), R(2))
    /\ yearlySavings # Undefined

\* C23: every entry of the two series is a whole number, while the state
\* carried through the loop is never rounded: the savings and the rent of the
\* next year are computed from the unrounded savings and rent of this year.
C23_RoundedOnlyInSeries ==
    [][(year' = year + 1) =>
         /\ \A i \in DOMAIN buyNetWorth' : buyNetWorth'[i].d = 1
         /\ \A i \in DOMAIN rentNetWorth' : rentNetWorth'[i].d = 1
         /\ year >= 1 =>
                cumulativeSavings' =
                    RMul(RAdd(cumulativeSavings,
                              Max0(RSub(RMul(R(12), totalMonthlyOwnership),
                                        RMul(R(12), currentRent)))),
                         RDiv(R(100 + values.investmentReturn), R(100)))
         /\ year < values.timeHorizon =>
                currentRent' =
                    RMul(currentRent, RDiv(R(100 + values.rentIncrease), R(100)))
         /\ (year >= 1 /\ values.mortgageRate = 0) =>
                remainingLoanBalance' = remainingLoanBalance]_vars

C23_Witness ==
    /\ year >= 3
    /\ cumulativeSavings.d > 1
    /\ RLt(Zero, yearlySavings)
    /\ \A i \in DOMAIN rentNetWorth : rentNetWorth[i].d = 1
    /\ \A i \in DOMAIN buyNetWorth : buyNetWorth[i].d = 1

\* C29: for mortgageRate > 0, mortgageTerm > 0 and loanAmount >= 0 the
\* remaining balance carried through the loop lies in [0, loanAmount], never
\* increases from one year to the next, and stays 0 once it is 0.
C29_BalanceRange ==
    [][(values.mortgageRate > 0 /\ values.mortgageTerm > 0) =>
         /\ RGeq(remainingLoanBalance, Zero)
         /\ RGeq(loanAmount, remainingLoanBalance)
         /\ RGeq(remainingLoanBalance', Zero)
         /\ RGeq(remainingLoanBalance, remainingLoanBalance')
         /\ (remainingLoanBalance = Zero => remainingLoanBalance' = Zero)]_vars

C29_Witness ==
    /\ values.mortgageRate > 0
    /\ values.mortgageTerm = 1
    /\ loanAmount = R(60)
    /\ year >= 3
    /\ remainingLoanBalance = Zero

\* the balance after k monthly steps B <- B * (1 + monthlyRate) - monthlyMortgage
RECURSIVE BalanceAfterMonths(_)
BalanceAfterMonths(k) ==
    IF k = 0 THEN loanAmount
    ELSE RSub(RMul(BalanceAfterMonths(k - 1), RAdd(One, monthlyRate)),
              monthlyMortgage)

\* C30: for mortgageRate > 0 the balance of year y with 12y <= numPayments is
\* the balance reached from loanAmount by 12y monthly steps
\* B <- B * (1 + monthlyRate) - monthlyMortgage.
C30_ClosedFormIsSchedule ==
    (values.mortgageRate > 0 /\ year >= 1 /\ 12 * lastYear <= numPayments) =>
        remainingLoanBalance = BalanceAfterMonths(12 * lastYear)

C30_Witness ==
    /\ values.mortgageRate > 0
    /\ year = 2
    /\ numPayments = 24
    /\ RLt(Zero, remainingLoanBalance)
    /\ RLt(remainingLoanBalance, loanAmount)

\* C22: for homePrice 500000, downPayment 100000, mortgageRate 6.5 and
\* mortgageTerm 30 the monthly mortgage payment is 2528 to within 1 unit.
C22_ReferencePayment ==
    (/\ payment.den # <<>>
     /\ valuesState.homePrice = R(500000)
     /\ valuesState.downPayment = R(100000)
     /\ valuesState.mortgageRate = RDiv(R(13), R(2))
     /\ valuesState.mortgageTerm = R(30)) =>
        /\ BigLeq(BigMul(payment.den, 2527), payment.num)
        /\ BigLeq(payment.num, BigMul(payment.den, 2529))

C22_Witness ==
    /\ payment.den # <<>>
    /\ powCount = 360
    /\ valuesState.mortgageRate = RDiv(R(13), R(2))
    /\ valuesState.mortgageTerm = R(30)
    /\ StateLoanAmount = R(400000)
    /\ BigLeq(BigMul(payment.den, 2528), payment.num)
    /\ BigLeq(payment.num, BigMul(payment.den, 2529))

\* C24: whatever numbers the fields hold, the computation ends with defined
\* finalBuy and finalRent: both series have an entry at index timeHorizon.
C24_FinalsDefined ==
    pc = "done" =>
        /\ Len(buyNetWorth) > values.timeHorizon
        /\ Len(rentNetWorth) > values.timeHorizon
        /\ finalBuy # Undefined
        /\ finalRent # Undefined

\* C25: without a stored item, or with an item that is not JSON, the record
\* is initialised to exactly DEFAULT_VALUES, and the effect then writes the
\* defaults to the storage.
C25_FallbackToDefaults ==
    [][(stored = NoItem \/ stored = BrokenItem) =>
         /\ InitialValues(stored) = DEFAULT_VALUES
         /\ Reload => valuesState' = DEFAULT_VALUES
         /\ (Persist /\ valuesState = DEFAULT_VALUES) =>
                /\ stored' # NoItem /\ stored' # BrokenItem
                /\ DOMAIN stored'.members = Keys
                /\ stored'.members.homePrice = <<"5", "0", "0", "0", "0", "0">>
                /\ stored'.members.mortgageRate = <<"6", ".", "5">>
                /\ stored'.members.annualOwnershipPercent = <<"1", ".", "5">>
                /\ Parse(stored') = DEFAULT_VALUES]_vars

C25_Witness ==
    /\ stored = BrokenItem
    /\ valuesState = DEFAULT_VALUES
    /\ effectPending

\* C26: an input-change event for the field k sets values[k] to Number(text),
\* or to '' when the text is empty, and leaves every other field as it was.
C26_OnlyOneField ==
    [][\A key \in EditedKeys : \A text \in TypedTexts :
          HandleChange(key, text) =>
              /\ DOMAIN valuesState' = DOMAIN valuesState
              /\ \A j \in DOMAIN valuesState \ {key} :
                     valuesState'[j] = valuesState[j]
              /\ valuesState'[key] =
                     CASE text = <<>> -> EmptyString
                       [] text = <<"7">> -> R(7)
                       [] text = <<"2", ".", "5">> -> RDiv(R(5), R(2))]_vars

C26_Witness ==
    /\ stored = NoItem
    /\ valuesState.timeHorizon = EmptyString
    /\ valuesState.homePrice = R(7)
    /\ valuesState.annualOwnershipPercent = RDiv(R(5), R(2))
    /\ \A j \in Keys \ EditedKeys : valuesState[j] = DEFAULT_VALUES[j]

\* C27: toggling the Advanced Settings panel changes neither the input record
\* nor the stored record, and the series, the finals and the winner computed
\* afterwards are those of the record, with its three advanced percentages,
\* whether the panel is shown or hidden.
C27_ToggleChangesNothing ==
    /\ [][(showAdvanced' # showAdvanced) =>
            /\ values' = values
            /\ valuesState' = valuesState
            /\ stored' = stored
            /\ effectPending' = effectPending]_vars
    /\ [](pc = "done" =>
            /\ buyNetWorth = [i \in 1..(values.timeHorizon + 1) |-> BuyOfYear(i - 1)]
            /\ rentNetWorth = [i \in 1..(values.timeHorizon + 1) |-> RentNetOfYear(i - 1)]
            /\ finalBuy = At(buyNetWorth, values.timeHorizon)
            /\ finalRent = At(rentNetWorth, values.timeHorizon)
            /\ winner = Winner(JSSub(finalRent, finalBuy)))

C27_Witness ==
    /\ pc = "done"
    /\ showAdvanced
    /\ renders = 2
    /\ values.closingCostsPercent > 0
    /\ values.sellingCostsPercent > 0
    /\ values.annualOwnershipPercent > 0
    /\ values.timeHorizon >= 2
    /\ finalBuy.n > 0

\* C28: the events dispatched before one render are all applied to the
\* previous record: every field takes the value of the last event dispatched
\* for it and keeps its value when there was none, so that no update is lost,
\* events on different fields commute and the later of two events on one
\* field wins.
C28_NoLostUpdate ==
    [][(updateQueue # <<>> /\ updateQueue' = <<>>) =>
         \A k \in Keys :
             LET events == {i \in DOMAIN updateQueue : updateQueue[i].key = k}
             IN  IF events = {} THEN valuesState'[k] = valuesState[k]
                 ELSE \E i \in events :
                          /\ \A j \in events : j <= i
                          /\ valuesState'[k] = updateQueue[i].val]_vars

C28_Witness ==
    /\ renders = 1
    /\ updateQueue = <<>>
    /\ valuesState.homePrice = R(7)
    /\ valuesState.timeHorizon = EmptyString
    /\ valuesState.annualOwnershipPercent = RDiv(R(3), R(2))

====
